---- MODULE Spec2Model ----
(***************************************************************************)
(* Model of the kyotsu event-code registry:                                *)
(*   - the prefixes / event_codes relations (kyotsu/db/models.py),         *)
(*   - the BEFORE INSERT trigger that assigns EventCode.increment          *)
(*     (kyotsu/db/triggers.py),                                            *)
(*   - the code grammar and the recursive prefix resolver (kyotsu/utis.py),*)
(*   - the lookup endpoint (kyotsu/api/service/routes.py).                 *)
(* Strings are sequences of one-character strings, so that joining,        *)
(* splitting, padding and digit conversion are computed, not assumed.      *)
(***************************************************************************)
EXTENDS Integers, Sequences, FiniteSets, TLC

VARIABLES
    prefixes,       \* table prefixes: id -> [prefix, parent_prefix_id]
    nextPrefixId,   \* the autoincrement sequence behind Prefix.id
    event_codes,    \* table event_codes: the committed rows
    nextCodeId,     \* stands for the fresh uuid of the next EventCode
    pending,        \* per database session: the insert not yet committed (the row, and the increment the caller sent)
    assigned,       \* history: per prefix id, the increments the trigger handed out, in order
    lastOp,         \* history: the operation that produced this state, with its outcome
    code,           \* grammar: the string under parse / the string produced by format
    parsed          \* grammar: the outcome of parse_error_code on code

vars == <<prefixes, nextPrefixId, event_codes, nextCodeId, pending, assigned, lastOp, code, parsed>>

dbVars == <<prefixes, nextPrefixId, event_codes, nextCodeId, pending, assigned>>

grammarVars == <<code, parsed>>

-----------------------------------------------------------------------------
(* Bounds of the model *)

MaxPrefixes == 3

MaxEventCodes == 3

\* event codes created in the runs that exercise the cascade
CascadeMaxEventCodes == 2

\* prefixes and event codes created in the runs that exercise the lookup
LookupMaxPrefixes == 2

LookupMaxEventCodes == 2

\* grammar runs: characters per segment, segments per chain, characters per raw string
MaxSegmentLen == 2

MaxChainLen == 2

MaxCodeLen == 4

\* prefixes created in the runs that exercise the allocator
AllocMaxPrefixes == 2

Sessions == {1, 2}

\* NULL of a nullable column; serial ids start at 1
NULL == 0

-----------------------------------------------------------------------------
(* Characters and strings *)

LowerCase == <<"a","b","c","d","e","f","g","h","i","j","k","l","m",
               "n","o","p","q","r","s","t","u","v","w","x","y","z">>

UpperCase == <<"A","B","C","D","E","F","G","H","I","J","K","L","M",
               "N","O","P","Q","R","S","T","U","V","W","X","Y","Z">>

Digits == <<"0","1","2","3","4","5","6","7","8","9">>

Range(f) == {f[i] : i \in DOMAIN f}

\* the character class [a-zA-Z.] of error_code_pattern
IsPrefixChar(c) == c \in Range(LowerCase) \cup Range(UpperCase) \cup {"."}

\* the character class \d of error_code_pattern
IsDigit(c) == c \in Range(Digits)

\* str.upper(), character by character
UpperChar(c) ==
    IF c \in Range(LowerCase)
    THEN UpperCase[CHOOSE i \in DOMAIN LowerCase : LowerCase[i] = c]
    ELSE c

upper(s) == [i \in DOMAIN s |-> UpperChar(s[i])]

\* ".".join(parts)
RECURSIVE join(_)
join(parts) ==
    IF parts = <<>> THEN <<>>
    ELSE IF Len(parts) = 1 THEN parts[1]
    ELSE parts[1] \o <<".">> \o join(Tail(parts))

\* a parse that keeps the prefixes group whole
split_not_done(s) == <<s>>

\* s.split("."): always at least one (possibly empty) piece
RECURSIVE split(_)
split(s) ==
    IF \A i \in DOMAIN s : s[i] # "."
    THEN <<s>>
    ELSE LET k == CHOOSE i \in DOMAIN s :
                    s[i] = "." /\ \A j \in 1..(i-1) : s[j] # "."
         IN  <<SubSeq(s, 1, k-1)>> \o split(SubSeq(s, k+1, Len(s)))

-----------------------------------------------------------------------------
(* Code grammar: kyotsu/utis.py parse_error_code, models.py str_value *)

DigitValue(c) == (CHOOSE i \in DOMAIN Digits : Digits[i] = c) - 1

\* int(digits) for a non-empty run of decimal digits
RECURSIVE int(_)
int(s) ==
    IF s = <<>> THEN 0
    ELSE int(SubSeq(s, 1, Len(s) - 1)) * 10 + DigitValue(s[Len(s)])

\* str(n) for n >= 0
RECURSIVE str(_)
str(n) ==
    IF n < 10 THEN <<Digits[n + 1]>>
    ELSE str(n \div 10) \o <<Digits[(n % 10) + 1]>>

\* the width of the format spec "0>4"
IncrementWidth == 4

\* f"{increment:0>4}": right-aligned, filled with "0" up to the width, never cut
RECURSIVE pad(_)
pad(s) == IF Len(s) >= IncrementWidth THEN s ELSE pad(<<"0">> \o s)

format_increment(n) == pad(str(n))

\* the longest leading run of s whose characters satisfy the class
RECURSIVE PrefixCharRun(_)
PrefixCharRun(s) ==
    IF s # <<>> /\ IsPrefixChar(Head(s))
    THEN <<Head(s)>> \o PrefixCharRun(Tail(s))
    ELSE <<>>

RECURSIVE DigitRun(_)
DigitRun(s) ==
    IF s # <<>> /\ IsDigit(Head(s))
    THEN <<Head(s)>> \o DigitRun(Tail(s))
    ELSE <<>>

\* error_code_pattern.match(code): anchored at the start only. The two
\* character classes are disjoint, so the greedy groups are the maximal runs.
\* No match is the value None.
error_code_pattern_match(s) ==
    LET p == PrefixCharRun(s)
        d == DigitRun(SubSeq(s, Len(p) + 1, Len(s)))
    IN  IF p # <<>> /\ d # <<>>
        THEN [matched |-> TRUE, prefixes |-> p, increment |-> d]
        ELSE [matched |-> FALSE]

\* parse_error_code: None.groupdict() raises AttributeError
parse_error_code(s) ==
    LET m == error_code_pattern_match(s)
    IN  IF ~m.matched
        THEN [kind |-> "AttributeError"]
        ELSE [kind |-> "ok", groups |-> split(m.prefixes), increment |-> int(m.increment)]

\* Prefix.str_value over a prefixes table: the parent's value, ".", own prefix.
\* "not parent_prefix_id" holds for NULL (and for 0, which a serial id never is).
RECURSIVE Prefix_str_value(_, _)
Prefix_str_value(tbl, id) ==
    IF tbl[id].parent_prefix_id = NULL
    THEN tbl[id].prefix
    ELSE Prefix_str_value(tbl, tbl[id].parent_prefix_id) \o <<".">> \o tbl[id].prefix

\* EventCode.str_value
EventCode_str_value(tbl, row) ==
    Prefix_str_value(tbl, row.prefix_id) \o format_increment(row.increment)

-----------------------------------------------------------------------------
(* Path resolver: kyotsu/utis.py get_prefix_ids_by_composed_key_query *)

\* the non-recursive term: every row with parent_prefix_id IS NULL
anchor(tbl) ==
    { [id |-> p, prefix |-> tbl[p].prefix, composed_prefix |-> tbl[p].prefix,
       parent_prefix_id |-> tbl[p].parent_prefix_id]
        : p \in {q \in DOMAIN tbl : tbl[q].parent_prefix_id = NULL} }

\* the recursive term concatenating in the wrong order
recursive_swapped(tbl, working) ==
    { [id |-> pw[1], prefix |-> tbl[pw[1]].prefix,
       composed_prefix |-> tbl[pw[1]].prefix \o <<".">> \o pw[2].composed_prefix,
       parent_prefix_id |-> tbl[pw[1]].parent_prefix_id]
        : pw \in {x \in (DOMAIN tbl) \X working : tbl[x[1]].parent_prefix_id = x[2].id} }

\* the recursive term with the join condition turned round
recursive_upward(tbl, working) ==
    { [id |-> pw[1], prefix |-> tbl[pw[1]].prefix,
       composed_prefix |-> pw[2].composed_prefix \o <<".">> \o tbl[pw[1]].prefix,
       parent_prefix_id |-> tbl[pw[1]].parent_prefix_id]
        : pw \in {x \in (DOMAIN tbl) \X working : x[2].parent_prefix_id = x[1]} }

\* the recursive term: prefixes JOIN working table ON parent_prefix_id = working.id
recursive(tbl, working) ==
    { [id |-> pw[1], prefix |-> tbl[pw[1]].prefix,
       composed_prefix |-> pw[2].composed_prefix \o <<".">> \o tbl[pw[1]].prefix,
       parent_prefix_id |-> tbl[pw[1]].parent_prefix_id]
        : pw \in {x \in (DOMAIN tbl) \X working : tbl[x[1]].parent_prefix_id = x[2].id} }

\* WITH RECURSIVE ... UNION ALL: the rows each iteration produces, the anchor's
\* first; the evaluation stops at the first iteration that produces no row.
RECURSIVE Iterate(_, _)
Iterate(tbl, working) ==
    IF working = {} THEN <<>>
    ELSE <<working>> \o Iterate(tbl, recursive(tbl, working))

composed_prefix_cte(tbl) == Iterate(tbl, anchor(tbl))

CteRows(tbl) == UNION Range(composed_prefix_cte(tbl))

\* the ids the final SELECT returns. Its rows all carry the same composed_prefix,
\* so ORDER BY composed_prefix leaves their order open: a set.
get_prefix_ids_by_composed_key_query(tbl, segs) ==
    { r.id : r \in {x \in CteRows(tbl) : x.composed_prefix = join(segs)} }

-----------------------------------------------------------------------------
(* Inputs of the administrative operations *)

\* values of Prefix.prefix; the column is an unconstrained string
Segments == { <<"A">>, <<"B">>, <<"A", ".", "B">> }

\* a nullable text column holds <<>> (NULL) or <<text>>
Payloads ==
    { [custom_message |-> <<"Invalid credentials">>, hint |-> <<"Check the password">>,
       severity |-> "error", use_generic_message |-> FALSE],
      [custom_message |-> <<"Invalid credentials">>, hint |-> <<>>,
       severity |-> "critical", use_generic_message |-> TRUE],
      [custom_message |-> <<>>, hint |-> <<>>,
       severity |-> "info", use_generic_message |-> FALSE] }

\* EventCode.increment as the caller sends it: the column default 0, or a value
SuppliedIncrements == {0, 2}

-----------------------------------------------------------------------------
(* Tables *)

Max(S) == CHOOSE x \in S : \A y \in S : y <= x

\* a cascade that stops at the children of S
SubtreeOneLevel(tbl, S) == S \cup {q \in DOMAIN tbl : tbl[q].parent_prefix_id \in S}

\* the prefixes reachable from the set S by parent_prefix_id links, S included
RECURSIVE Subtree(_, _)
Subtree(tbl, S) ==
    LET children == {q \in DOMAIN tbl : tbl[q].parent_prefix_id \in S}
    IN  IF children \subseteq S THEN S ELSE Subtree(tbl, S \cup children)

\* the trigger function without its WHERE prefix_id = NEW.prefix_id
auto_increment_without_where(new, visible) ==
    LET incs == {r.increment : r \in visible}
    IN  [new EXCEPT !.increment = (IF incs = {} THEN 0 ELSE Max(incs)) + 1]

\* the trigger function assigning only when the caller left the default
auto_increment_unless_supplied(new, visible) ==
    LET incs == {r.increment : r \in {x \in visible : x.prefix_id = new.prefix_id}}
    IN  IF new.increment # 0 THEN new
        ELSE [new EXCEPT !.increment = (IF incs = {} THEN 0 ELSE Max(incs)) + 1]

\* auto_event_code_increment_function, fired BEFORE INSERT FOR EACH ROW:
\* SELECT COALESCE(MAX(increment), 0) + 1 INTO NEW.increment
\*   FROM event_codes WHERE prefix_id = NEW.prefix_id
auto_event_code_increment_function(new, visible) ==
    LET incs == {r.increment : r \in {x \in visible : x.prefix_id = new.prefix_id}}
    IN  [new EXCEPT !.increment = (IF incs = {} THEN 0 ELSE Max(incs)) + 1]

\* the rows a session has inserted and not yet committed
PendingRows(s) == {i.row : i \in pending[s]}

Init ==
    /\ prefixes = <<>>
    /\ nextPrefixId = 1
    /\ event_codes = {}
    /\ nextCodeId = 1
    /\ pending = [s \in Sessions |-> {}]
    /\ assigned = [p \in {} |-> <<>>]
    /\ lastOp = [op |-> "init"]
    /\ code = <<>>
    /\ parsed = [kind |-> "none"]

\* PrefixView create: a new row under the next serial id
CreatePrefix(seg, parent) ==
    /\ nextPrefixId <= MaxPrefixes
    /\ parent \in DOMAIN prefixes \cup {NULL}
    /\ prefixes' = [p \in DOMAIN prefixes \cup {nextPrefixId} |->
                      IF p = nextPrefixId
                      THEN [prefix |-> seg, parent_prefix_id |-> parent]
                      ELSE prefixes[p]]
    /\ nextPrefixId' = nextPrefixId + 1
    /\ assigned' = [p \in DOMAIN prefixes' |-> IF p = nextPrefixId THEN <<>> ELSE assigned[p]]
    /\ lastOp' = [op |-> "create_prefix"]
    /\ UNCHANGED <<event_codes, nextCodeId, pending, grammarVars>>

\* DELETE FROM prefixes WHERE id = p. Both foreign keys are ON DELETE CASCADE.
\* A row inserted by an open transaction holds a key-share lock on its prefix,
\* so the delete waits for that transaction.
DeletePrefix(p) ==
    LET gone == Subtree(prefixes, {p})
    IN  /\ p \in DOMAIN prefixes
        /\ \A s \in Sessions : \A r \in PendingRows(s) : r.prefix_id \notin gone
        /\ prefixes' = [q \in DOMAIN prefixes \ gone |-> prefixes[q]]
        /\ event_codes' = {r \in event_codes : r.prefix_id \notin gone}
        /\ assigned' = [q \in DOMAIN prefixes' |-> assigned[q]]
        /\ lastOp' = [op |-> "delete_prefix", id |-> p,
                      prefixes |-> Cardinality(gone),
                      own_codes |-> Cardinality({r \in event_codes : r.prefix_id = p}),
                      event_codes |-> Cardinality(event_codes \ event_codes')]
        /\ UNCHANGED <<nextPrefixId, nextCodeId, pending, grammarVars>>

\* EventCodeView create, first half: the INSERT statement. The trigger reads the
\* committed rows (READ COMMITTED, the engine default) and the session's own.
InsertEventCode(s, prefix_id, supplied, payload) ==
    LET new == [id |-> nextCodeId, prefix_id |-> prefix_id, increment |-> supplied,
                custom_message |-> payload.custom_message, hint |-> payload.hint,
                severity |-> payload.severity,
                use_generic_message |-> payload.use_generic_message]
        row == auto_event_code_increment_function(new, event_codes \cup PendingRows(s))
    IN  /\ nextCodeId <= MaxEventCodes
        /\ pending[s] = {}
        /\ prefix_id \in DOMAIN prefixes
        /\ pending' = [pending EXCEPT ![s] = {[row |-> row, supplied |-> supplied]}]
        /\ nextCodeId' = nextCodeId + 1
        /\ assigned' = [assigned EXCEPT ![prefix_id] = Append(@, row.increment)]
        /\ lastOp' = [op |-> "insert", id |-> row.id, supplied |-> supplied]
        /\ UNCHANGED <<prefixes, nextPrefixId, event_codes, grammarVars>>

\* EventCodeView create, second half: COMMIT makes the row visible to all
Commit(s) ==
    /\ pending[s] # {}
    /\ event_codes' = event_codes \cup PendingRows(s)
    /\ pending' = [pending EXCEPT ![s] = {}]
    /\ lastOp' = LET ins == CHOOSE i \in pending[s] : TRUE
                 IN  [op |-> "commit", id |-> ins.row.id, supplied |-> ins.supplied]
    /\ UNCHANGED <<prefixes, nextPrefixId, nextCodeId, assigned, grammarVars>>

\* DELETE FROM event_codes WHERE id = ...
DeleteEventCode(row) ==
    /\ row \in event_codes
    /\ event_codes' = event_codes \ {row}
    /\ lastOp' = [op |-> "delete_event_code"]
    /\ UNCHANGED <<prefixes, nextPrefixId, nextCodeId, pending, assigned, grammarVars>>

\* PrefixView edit: prefix and parent_prefix are editable; the parent is any
\* existing row (the row itself included) or none
EditPrefix(p, seg, parent) ==
    /\ p \in DOMAIN prefixes
    /\ parent \in DOMAIN prefixes \cup {NULL}
    /\ prefixes' = [prefixes EXCEPT ![p] = [prefix |-> seg, parent_prefix_id |-> parent]]
    /\ lastOp' = [op |-> "edit_prefix"]
    /\ UNCHANGED <<nextPrefixId, event_codes, nextCodeId, pending, assigned, grammarVars>>

\* EventCodeView edit: id, prefix and increment are not editable
UpdateEventCode(row, payload) ==
    /\ row \in event_codes
    /\ event_codes' = (event_codes \ {row}) \cup
            {[row EXCEPT !.custom_message = payload.custom_message,
                         !.hint = payload.hint,
                         !.severity = payload.severity,
                         !.use_generic_message = payload.use_generic_message]}
    /\ lastOp' = [op |-> "update_event_code"]
    /\ UNCHANGED <<prefixes, nextPrefixId, nextCodeId, pending, assigned, grammarVars>>

NoneOpen == \A s \in Sessions : pending[s] = {}

DefaultSegment == <<"A">>

DefaultPayload ==
    [custom_message |-> <<"Invalid credentials">>, hint |-> <<>>,
     severity |-> "error", use_generic_message |-> FALSE]

\* The allocator reads prefix_id and increment only: the runs that exercise it
\* vary the prefixes present, the sessions and the supplied increment.
TreeShapeOps ==
    \/ \E parent \in DOMAIN prefixes \cup {NULL} :
            nextPrefixId <= AllocMaxPrefixes /\ CreatePrefix(DefaultSegment, parent)
    \/ \E p \in DOMAIN prefixes : DeletePrefix(p)

Next ==
    \/ TreeShapeOps
    \/ \E s \in Sessions, p \in DOMAIN prefixes, n \in SuppliedIncrements :
            InsertEventCode(s, p, n, DefaultPayload)
    \/ \E s \in Sessions : Commit(s)
    \/ \E row \in event_codes : DeleteEventCode(row)

Spec == Init /\ [][Next]_vars

\* Creations one after another: an INSERT starts only when no transaction is open
NextSeq ==
    \/ TreeShapeOps
    \/ \E s \in Sessions, p \in DOMAIN prefixes, n \in SuppliedIncrements :
            NoneOpen /\ InsertEventCode(s, p, n, DefaultPayload)
    \/ \E s \in Sessions : Commit(s)
    \/ \E row \in event_codes : DeleteEventCode(row)

SpecSeq == Init /\ [][NextSeq]_vars

-----------------------------------------------------------------------------
(* Increment allocator *)

StoredUnder(p) == {r \in event_codes : r.prefix_id = p}

\* 1 + max(increment of the rows of codes with this prefix_id, default 0)
NextIncrement(codes, p) ==
    LET incs == {r.increment : r \in {x \in codes : x.prefix_id = p}}
    IN  1 + (IF incs = {} THEN 0 ELSE CHOOSE m \in incs : \A n \in incs : n <= m)

InsertStep(s) == pending[s] = {} /\ pending'[s] # {}

CommitStep(s) == pending[s] # {} /\ pending'[s] = {}

\* C1: in every reachable state, whatever the interleaving of the creations'
\* trigger reads and commits, no two stored EventCodes of one prefix carry the
\* same increment.
C1_UniqueIncrementPerPrefix ==
    \A r1 \in event_codes : \A r2 \in event_codes :
        (r1.prefix_id = r2.prefix_id /\ r1.increment = r2.increment) => r1 = r2

\* C2: when creations do not overlap, each new EventCode of prefix P gets
\* 1 + the maximum increment stored under P (1 when P has none), and as long as
\* no EventCode of P has been deleted the increments handed out under P are
\* 1, 2, ..., k in creation order, whatever other prefixes hold.
C2_SequentialAllocation ==
    /\ [][\A s \in Sessions : InsertStep(s) =>
            \A i \in pending'[s] :
                i.row.increment = NextIncrement(event_codes, i.row.prefix_id)]_vars
    /\ [](\A p \in DOMAIN prefixes :
            Cardinality(StoredUnder(p)) = Len(assigned[p]) =>
                /\ \A k \in 1..Len(assigned[p]) : assigned[p][k] = k
                /\ {r.increment : r \in StoredUnder(p)} = 1..Len(assigned[p])
                /\ \A r1 \in StoredUnder(p) : \A r2 \in StoredUnder(p) :
                        r1.id < r2.id => r1.increment < r2.increment)

\* C2 witness: two creations under one prefix got 1 and 2 although a creation
\* under another prefix came between them.
C2_Witness ==
    \E p \in DOMAIN prefixes : \E q \in DOMAIN prefixes :
        /\ p # q
        /\ assigned[p] = <<1, 2>>
        /\ Cardinality(StoredUnder(p)) = 2
        /\ \E r \in StoredUnder(q) : \E r1 \in StoredUnder(p) : \E r2 \in StoredUnder(p) :
                r1.id < r.id /\ r.id < r2.id

\* C3: an increment once handed out under a prefix is never handed out again
\* under that prefix, deletions included.
C3_IncrementNeverReassigned ==
    \A p \in DOMAIN assigned :
        \A i \in 1..Len(assigned[p]) : \A j \in 1..Len(assigned[p]) :
            i # j => assigned[p][i] # assigned[p][j]

\* C4: whatever increment the caller supplies on creation, the row the INSERT
\* produces carries the allocator's value computed from the rows it reads, and
\* COMMIT stores exactly that row.
C4_SuppliedIncrementIgnored ==
    [][\A s \in Sessions :
        /\ InsertStep(s) =>
                \A i \in pending'[s] :
                    i.row.increment = NextIncrement(event_codes, i.row.prefix_id)
        /\ CommitStep(s) =>
                event_codes' = event_codes \cup {i.row : i \in pending[s]}]_vars

\* C4 witness: a row was committed whose caller had supplied a non-default
\* increment, and the stored increment is a different, allocated one.
C4_Witness ==
    /\ lastOp.op = "commit"
    /\ lastOp.supplied = 2
    /\ \E r \in event_codes : r.id = lastOp.id /\ r.increment = 1

-----------------------------------------------------------------------------
(* Prefix tree and path resolver *)

\* the prefixes met walking parent_prefix_id from n, n included, in at most k steps
RECURSIVE Ancestry(_, _, _)
Ancestry(tbl, n, k) ==
    IF k = 0 \/ tbl[n].parent_prefix_id = NULL THEN {n}
    ELSE {n} \cup Ancestry(tbl, tbl[n].parent_prefix_id, k - 1)

\* the walk from n ends at a root without meeting a prefix twice
ReachesRoot(tbl, n) ==
    \E r \in Ancestry(tbl, n, Cardinality(DOMAIN tbl)) : tbl[r].parent_prefix_id = NULL

IsForest(tbl) == \A n \in DOMAIN tbl : ReachesRoot(tbl, n)

Depth(tbl, n) == Cardinality(Ancestry(tbl, n, Cardinality(DOMAIN tbl)))

\* the segment chain of n: the root's segment first, n's own last
RECURSIVE SegmentChain(_, _)
SegmentChain(tbl, n) ==
    IF tbl[n].parent_prefix_id = NULL THEN <<tbl[n].prefix>>
    ELSE Append(SegmentChain(tbl, tbl[n].parent_prefix_id), tbl[n].prefix)

DistinctComposedPaths(tbl) ==
    \A n \in DOMAIN tbl : \A m \in DOMAIN tbl :
        n # m => Prefix_str_value(tbl, n) # Prefix_str_value(tbl, m)

\* db.execute(get_prefix_ids_by_composed_key_query(chain of n)), for a prefix n
\* whose chain exists
ResolvePrefix(n) ==
    /\ n \in DOMAIN prefixes
    /\ ReachesRoot(prefixes, n)
    /\ lastOp' = [op |-> "resolve", id |-> n,
                  ids |-> get_prefix_ids_by_composed_key_query(prefixes, SegmentChain(prefixes, n))]
    /\ UNCHANGED <<dbVars, grammarVars>>

NextTree ==
    \/ \E seg \in Segments, parent \in DOMAIN prefixes \cup {NULL} : CreatePrefix(seg, parent)
    \/ \E p \in DOMAIN prefixes, seg \in Segments, parent \in DOMAIN prefixes \cup {NULL} :
            EditPrefix(p, seg, parent)
    \/ \E p \in DOMAIN prefixes : DeletePrefix(p)
    \/ \E n \in DOMAIN prefixes : ResolvePrefix(n)

SpecTree == Init /\ [][NextTree]_vars

\* C5: in a forest whose composed paths are pairwise distinct, resolving the
\* segment chain of any node n yields exactly the id of n, and the chain joined
\* by "." is the path obtained by walking up from n (Prefix.str_value).
C5_ResolverReturnsNode ==
    (IsForest(prefixes) /\ DistinctComposedPaths(prefixes)) =>
        /\ \A n \in DOMAIN prefixes :
            /\ get_prefix_ids_by_composed_key_query(prefixes, SegmentChain(prefixes, n)) = {n}
            /\ join(SegmentChain(prefixes, n)) = Prefix_str_value(prefixes, n)
        /\ lastOp.op = "resolve" => lastOp.ids = {lastOp.id}

\* C5 witness: the chain of a node at depth 3 was resolved, in a forest with
\* distinct composed paths.
C5_Witness ==
    /\ lastOp.op = "resolve"
    /\ IsForest(prefixes)
    /\ DistinctComposedPaths(prefixes)
    /\ Depth(prefixes, lastOp.id) = 3
    /\ lastOp.ids = {lastOp.id}

-----------------------------------------------------------------------------
(* Cascading deletion *)

\* The cascade follows the foreign keys only: the runs that exercise it vary
\* the parent links (re-parenting included) and the owners of the event codes;
\* the event codes are created through one session.
NextCascade ==
    \/ \E parent \in DOMAIN prefixes \cup {NULL} : CreatePrefix(DefaultSegment, parent)
    \/ \E p \in DOMAIN prefixes, parent \in DOMAIN prefixes \cup {NULL} :
            EditPrefix(p, prefixes[p].prefix, parent)
    \/ \E p \in DOMAIN prefixes : DeletePrefix(p)
    \/ \E p \in DOMAIN prefixes :
            /\ nextCodeId <= CascadeMaxEventCodes
            /\ InsertEventCode(1, p, 0, DefaultPayload)
    \/ \E s \in Sessions : Commit(s)

SpecCascade == Init /\ [][NextCascade]_vars

\* p and every prefix whose walk up the parent links meets p
Descendants(tbl, p) ==
    {q \in DOMAIN tbl : p \in Ancestry(tbl, q, Cardinality(DOMAIN tbl))}

\* C7: deleting a prefix removes exactly it, its descendants and the event
\* codes they own, leaving every other row as it was; and in every state each
\* stored EventCode and each non-null parent_prefix_id refers to an existing prefix.
C7_CascadeDelete ==
    /\ [][(lastOp' # lastOp /\ lastOp'.op = "delete_prefix") =>
            LET gone == Descendants(prefixes, lastOp'.id)
            IN  /\ DOMAIN prefixes' = DOMAIN prefixes \ gone
                /\ \A q \in DOMAIN prefixes' : prefixes'[q] = prefixes[q]
                /\ event_codes' = {r \in event_codes : r.prefix_id \notin gone}]_vars
    /\ [](/\ \A r \in event_codes : r.prefix_id \in DOMAIN prefixes
          /\ \A q \in DOMAIN prefixes :
                prefixes[q].parent_prefix_id = NULL
                    \/ prefixes[q].parent_prefix_id \in DOMAIN prefixes)

\* C7 witness: a delete removed a prefix together with a descendant and an
\* event code owned by a descendant, and a prefix with its event code remains.
C7_Witness ==
    /\ lastOp.op = "delete_prefix"
    /\ lastOp.prefixes >= 2
    /\ lastOp.event_codes > lastOp.own_codes
    /\ event_codes # {}

-----------------------------------------------------------------------------
(* Code grammar runs *)

\* all strings over the alphabet of length lo..hi
StringsOver(alphabet, lo, hi) == UNION {[1..n -> alphabet] : n \in lo..hi}

\* segments: a capital, a small letter, a digit, a blank; non-empty, no dot,
\* no blank at either end
SegmentAlphabet == {"A", "b", "7", " "}

ValidSegments ==
    {g \in StringsOver(SegmentAlphabet, 1, MaxSegmentLen) : g[1] # " " /\ g[Len(g)] # " "}

ValidChains == StringsOver(ValidSegments, 1, MaxChainLen)

\* increments below, at and beyond the padded width
FormatIncrements == {0, 4, 9999, 12345}

\* raw strings handed to the parser
CodeAlphabet == {"A", ".", "1", "_"}

RawCodes == StringsOver(CodeAlphabet, 0, MaxCodeLen)

\* the prefixes table holding exactly the chain S: S[1] a root, each next its child
ChainTable(S) == [i \in 1..Len(S) |-> [prefix |-> S[i], parent_prefix_id |-> i - 1]]

\* format(S, N): str_value of an EventCode with increment N owned by the last node of S
format(S, N) ==
    EventCode_str_value(ChainTable(S), [prefix_id |-> Len(S), increment |-> N])

InitParse ==
    /\ prefixes = <<>>
    /\ nextPrefixId = 1
    /\ event_codes = {}
    /\ nextCodeId = 1
    /\ pending = [s \in Sessions |-> {}]
    /\ assigned = [p \in {} |-> <<>>]
    /\ lastOp = [op |-> "raw"]
    /\ code \in RawCodes
    /\ parsed = [kind |-> "none"]

\* rendering a stored EventCode; the runs start it from the empty string
Format(S, N) ==
    /\ code' = format(S, N)
    /\ parsed' = [kind |-> "none"]
    /\ lastOp' = [op |-> "format", segments |-> S, increment |-> N]
    /\ UNCHANGED dbVars

Parse ==
    /\ parsed.kind = "none"
    /\ parsed' = parse_error_code(code)
    /\ UNCHANGED <<dbVars, lastOp, code>>

NextParse ==
    \/ /\ lastOp.op = "raw" /\ code = <<>> /\ parsed.kind = "none"
       /\ \E S \in ValidChains, N \in FormatIncrements : Format(S, N)
    \/ Parse

SpecParse == InitParse /\ [][NextParse]_vars

IsLetter(c) == c \in Range(LowerCase) \cup Range(UpperCase)

LettersOnly(S) == \A i \in DOMAIN S : \A j \in DOMAIN S[i] : IsLetter(S[i][j])

\* C8 as stated: for every chain of non-empty, dot-free segments without a
\* blank at either end and every increment, parsing the formatted code gives
\* back the chain and the increment.
C8_RoundTripAllSegments ==
    (lastOp.op = "format" /\ parsed.kind # "none") =>
        parsed = [kind |-> "ok", groups |-> lastOp.segments, increment |-> lastOp.increment]

\* C8 amended: the round trip holds for every chain whose segments are
\* non-empty strings of ASCII letters, and every increment >= 0.
C8_RoundTripLetterSegments ==
    (lastOp.op = "format" /\ parsed.kind # "none" /\ LettersOnly(lastOp.segments)) =>
        parsed = [kind |-> "ok", groups |-> lastOp.segments, increment |-> lastOp.increment]

\* C8 witness: a two-segment letter chain with an increment wider than the
\* padding was formatted and parsed back.
C8_Witness ==
    /\ lastOp.op = "format"
    /\ Len(lastOp.segments) = 2
    /\ LettersOnly(lastOp.segments)
    /\ lastOp.increment = 12345
    /\ parsed.kind = "ok"
    /\ parsed.groups = lastOp.segments
    /\ parsed.increment = lastOp.increment

\* the grammar <segment>(.<segment>)*<digits> matched in full, a segment being
\* a non-empty run of letters
MatchesGrammar(s) ==
    \E k \in 1..(Len(s) - 1) :
        /\ \A i \in 1..k : IsLetter(s[i]) \/ s[i] = "."
        /\ \A i \in (k + 1)..Len(s) : IsDigit(s[i])
        /\ s[1] # "." /\ s[k] # "."
        /\ \A i \in 1..(k - 1) : ~(s[i] = "." /\ s[i + 1] = ".")

\* C9: on every string that does not match the grammar in full the parser
\* fails with the typed malformed-code error and returns no pair.
C9_MalformedRejected ==
    (parsed.kind # "none" /\ ~MatchesGrammar(code)) => parsed.kind = "MalformedCodeError"

-----------------------------------------------------------------------------
(* Lookup service: kyotsu/api/service/routes.py *)

\* HTTPException(404) or an exception that leaves the handler (500)
Failure(status, error) == [status |-> status, error |-> error]

\* routes.py lines 29-46, for the prefix_id taken from the first row
fetch_event_code(c, prefix_id, increment, codes) ==
    IF prefix_id = 0
    THEN Failure(404, "Prefix is not found")
    ELSE LET found == {e \in codes : e.prefix_id = prefix_id /\ e.increment = increment}
         IN  IF found = {}
             THEN Failure(404, "EventCode is not found")            \* .one(): NoResultFound
             ELSE IF Cardinality(found) > 1
             THEN Failure(500, "MultipleResultsFound")               \* .one(), not caught
             ELSE LET event_code == CHOOSE e \in found : TRUE
                      message == IF event_code.use_generic_message
                                 THEN <<"Something went wrong.">>
                                 ELSE event_code.custom_message
                  IN  IF message = <<>>
                      THEN Failure(500, "ValidationError")           \* EventCodeR.details: str
                      ELSE [status |-> 200, code |-> c, details |-> message[1],
                            hint |-> event_code.hint, severity |-> event_code.severity]

\* get_error_code_details: the responses the handler can give for code c.
\* fetchone() is None when no row matches, and None[0] raises TypeError; with
\* several rows, the first is any of them.
get_error_code_details(c, tbl, codes) ==
    LET p == parse_error_code(upper(c))
    IN  IF p.kind # "ok"
        THEN {Failure(500, "AttributeError")}
        ELSE LET ids == get_prefix_ids_by_composed_key_query(tbl, p.groups)
             IN  IF ids = {}
                 THEN {Failure(500, "TypeError")}
                 ELSE {fetch_event_code(c, prefix_id, p.increment, codes) : prefix_id \in ids}

LookupSegments == { <<"A">>, <<"B">> }

\* codes asked for: AUTH-like roots, a child, another increment, small letters,
\* a trailing character, no digits
LookupCodes ==
    { <<"A","0","0","0","1">>, <<"a","0","0","0","1">>, <<"A","0","0","0","2">>,
      <<"B","0","0","0","1">>, <<"A",".","B","0","0","0","1">>,
      <<"A","0","0","0","1","_">>, <<"A">> }

\* GET /event_code/{code}: reads the committed rows
Lookup(c) ==
    /\ \E response \in get_error_code_details(c, prefixes, event_codes) :
            lastOp' = [op |-> "lookup", code |-> c, response |-> response]
    /\ UNCHANGED <<dbVars, grammarVars>>

NextLookup ==
    \/ \E seg \in LookupSegments, parent \in DOMAIN prefixes \cup {NULL} :
            nextPrefixId <= LookupMaxPrefixes /\ CreatePrefix(seg, parent)
    \/ \E s \in Sessions, p \in DOMAIN prefixes, payload \in Payloads :
            nextCodeId <= LookupMaxEventCodes /\ InsertEventCode(s, p, 0, payload)
    \/ \E s \in Sessions : Commit(s)
    \/ \E row \in event_codes, payload \in Payloads : UpdateEventCode(row, payload)
    \/ \E c \in LookupCodes : Lookup(c)

SpecLookup == Init /\ [][NextLookup]_vars

\* the segment chain and increment of a well-formed code, as the handler reads it
ChainOf(c) == split(PrefixCharRun(upper(c)))

IncrementOf(c) == int(DigitRun(SubSeq(upper(c), Len(PrefixCharRun(upper(c))) + 1, Len(c))))

\* the prefixes whose composed path is the chain joined by "."
NodesAt(chain) ==
    {n \in DOMAIN prefixes : ReachesRoot(prefixes, n)
                                /\ Prefix_str_value(prefixes, n) = join(chain)}

\* C6: a lookup of a well-formed code whose chain is the composed path of no
\* prefix fails with the prefix-not-found error (404), nothing else.
C6_PrefixNotFound ==
    (/\ lastOp.op = "lookup"
     /\ MatchesGrammar(upper(lastOp.code))
     /\ NodesAt(ChainOf(lastOp.code)) = {})
        => lastOp.response = Failure(404, "Prefix is not found")

\* C10: a lookup of a code whose chain resolves to prefix p, with an EventCode
\* (p, parsed increment) stored, returns the code string, that EventCode's hint
\* and severity, and as details the generic string when use_generic_message is
\* set and the stored custom_message otherwise; and a lookup never returns data
\* of an EventCode of another prefix or increment.
C10_LookupReturnsEventCode ==
    lastOp.op = "lookup" =>
        /\ (MatchesGrammar(upper(lastOp.code)) =>
                \A p \in NodesAt(ChainOf(lastOp.code)) :
                \A e \in event_codes :
                    (e.prefix_id = p /\ e.increment = IncrementOf(lastOp.code)) =>
                        /\ lastOp.response.status = 200
                        /\ lastOp.response.code = lastOp.code
                        /\ lastOp.response.hint = e.hint
                        /\ lastOp.response.severity = e.severity
                        /\ <<lastOp.response.details>> =
                              (IF e.use_generic_message
                               THEN <<"Something went wrong.">> ELSE e.custom_message))
        /\ (lastOp.response.status = 200 =>
                \E p \in NodesAt(ChainOf(lastOp.code)) :
                \E e \in event_codes :
                    /\ e.prefix_id = p /\ e.increment = IncrementOf(lastOp.code)
                    /\ lastOp.response.hint = e.hint
                    /\ lastOp.response.severity = e.severity)

-----------------------------------------------------------------------------
(* Invariants of the prefix tree under the administrative operations *)

\* C11: after any sequence of prefix creations, edits (re-parenting included)
\* and deletions the parent relation is a forest: the walk along
\* parent_prefix_id from any prefix reaches a root and meets no prefix twice.
C11_ParentRelationIsForest == IsForest(prefixes)

\* C12: after any sequence of prefix creations and edits no two distinct
\* prefixes share the pair (parent_prefix_id, prefix), none share a composed
\* path, and the resolver yields at most one row for a chain.
C12_UniqueComposedPaths ==
    /\ \A n \in DOMAIN prefixes : \A m \in DOMAIN prefixes :
            n # m =>
                /\ <<prefixes[n].parent_prefix_id, prefixes[n].prefix>> #
                        <<prefixes[m].parent_prefix_id, prefixes[m].prefix>>
                /\ (ReachesRoot(prefixes, n) /\ ReachesRoot(prefixes, m)) =>
                        Prefix_str_value(prefixes, n) # Prefix_str_value(prefixes, m)
    /\ \A n \in DOMAIN prefixes :
            ReachesRoot(prefixes, n) =>
                Cardinality(get_prefix_ids_by_composed_key_query(
                                prefixes, SegmentChain(prefixes, n))) <= 1

-----------------------------------------------------------------------------
(* The resolver's fixed point, one iteration per step *)

\* a query is being evaluated
Evaluating == lastOp.op = "cte" /\ ~lastOp.done

\* the query starts: the working table is the anchor's result
CteStart ==
    /\ ~Evaluating
    /\ lastOp' = [op |-> "cte", working |-> anchor(prefixes), levels |-> <<>>, done |-> FALSE]
    /\ UNCHANGED <<dbVars, grammarVars>>

\* one iteration: the working table joins the result and the recursive term
\* is evaluated on it; an empty working table ends the evaluation. A row of
\* the recursive term comes from one pair (prefix, working row) and distinct
\* pairs give distinct rows, so UNION ALL adds no row twice within an iteration.
CteStep ==
    /\ Evaluating
    /\ lastOp' = IF lastOp.working = {}
                 THEN [lastOp EXCEPT !.done = TRUE]
                 ELSE [lastOp EXCEPT !.levels = Append(@, lastOp.working),
                                     !.working = recursive(prefixes, lastOp.working)]
    /\ UNCHANGED <<dbVars, grammarVars>>

\* the statement reads one snapshot: the table does not change under it
NextCte ==
    \/ /\ ~Evaluating
       /\ \E seg \in Segments, parent \in DOMAIN prefixes \cup {NULL} : CreatePrefix(seg, parent)
    \/ /\ ~Evaluating
       /\ \E p \in DOMAIN prefixes, seg \in Segments, parent \in DOMAIN prefixes \cup {NULL} :
                EditPrefix(p, seg, parent)
    \/ /\ ~Evaluating
       /\ \E p \in DOMAIN prefixes : DeletePrefix(p)
    \/ CteStart
    \/ CteStep

SpecCte == Init /\ [][NextCte]_vars

\* the depth of the deepest prefix reachable from a root (a root has depth 1)
DeepestFromRoot(tbl) ==
    LET depths == {Depth(tbl, n) : n \in {q \in DOMAIN tbl : ReachesRoot(tbl, q)}}
    IN  IF depths = {} THEN 0 ELSE CHOOSE d \in depths : \A e \in depths : e <= d

\* how many rows of the iterations carry the id n
RECURSIVE RowsFor(_, _)
RowsFor(levels, n) ==
    IF levels = <<>> THEN 0
    ELSE Cardinality({r \in Head(levels) : r.id = n}) + RowsFor(Tail(levels), n)

\* C13: on every reachable prefixes table the resolver's fixed point produces
\* rows in no more iterations than the depth of the deepest prefix reachable
\* from a root, never a prefix twice, and ends having produced each prefix
\* reachable from a root exactly once and no other.
C13_FixedPointTerminates ==
    lastOp.op = "cte" =>
        LET produced == IF lastOp.working = {} THEN lastOp.levels
                        ELSE Append(lastOp.levels, lastOp.working)
        IN  /\ Len(produced) <= DeepestFromRoot(prefixes)
            /\ \A n \in DOMAIN prefixes : RowsFor(produced, n) <= 1
            /\ lastOp.done =>
                /\ lastOp.working = {}
                /\ lastOp.levels = composed_prefix_cte(prefixes)
                /\ \A n \in DOMAIN prefixes :
                        RowsFor(lastOp.levels, n) = (IF ReachesRoot(prefixes, n) THEN 1 ELSE 0)

\* C13 witness: the evaluation ended after more than one iteration on a table
\* that holds a cycle beside a root with a child.
C13_Witness ==
    /\ lastOp.op = "cte"
    /\ lastOp.done
    /\ Len(lastOp.levels) >= 2
    /\ ~IsForest(prefixes)

=============================================================================
